---- MODULE Spec2Model ----
(***************************************************************************)
(* DeviceHandler of homebridge-xiaomi-airpurifier (src/index.js, the       *)
(* revision at lines 584-930): one handler's connection life cycle, its    *)
(* poll loop, its cache and its write handlers, as a state machine.        *)
(*                                                                         *)
(* Node.js runs one callback at a time, so each action below is one        *)
(* callback run from its start to its next await on the network: a         *)
(* constructor, a timer firing, the settling of miio.device() or of        *)
(* device.call(), or a HomeKit onSet handler being invoked.                *)
(***************************************************************************)
EXTENDS Integers, FiniteSets, Sequences, Bags, TLC

\* ------------------------------------------------------------------ bounds
\* Asynchronous work of one handler outstanding at once: miio.device() calls
\* and device.call()s not yet settled, onSet handlers not yet ended, reconnect
\* and re-poll timers not yet fired.
MaxPending == 3

\* ------------------------------------------------------- program constants
\* The delays, in ms, of the poll interval, of the reconnect timer and of the
\* re-poll timer. The model keeps which timers are pending and lets a pending
\* timer fire at any later step; it does not measure time.
POLLING_INTERVAL == 15000
RECONNECT_DELAY == 30000
REPOLL_DELAY == 250

\* The five RPC names setFavoriteLevelPercent tries, in its order.
tries == << "set_favorite_level", "set_level_favorite", "set_favorite",
            "set_speed_level", "set_level" >>

\* The properties one get_prop call fetches.
props == { "power", "mode", "aqi", "temp_dec", "humidity", "filter1_life",
           "favorite_level", "led", "buzzer" }

\* ------------------------------------------------------------ environment
\* Answers of the device to get_prop, one array of nine raw values each.
FetchResults ==
  { [ power |-> "on", mode |-> "auto", aqi |-> 40, temp_dec |-> 235,
      humidity |-> 45, filter1_life |-> 80, favorite_level |-> 7,
      led |-> "on", buzzer |-> "off" ],
    [ power |-> "off", mode |-> "favorite", aqi |-> 12, temp_dec |-> 198,
      humidity |-> 60, filter1_life |-> 3, favorite_level |-> 14,
      led |-> "off", buzzer |-> "on" ] }

\* How a write's device.call() can settle: ['ok'], another result, an error
\* whose message matches /method not found/i, any other error.
Outcomes == { "ok", "rejected", "unsupported", "transport" }

\* The onSet handlers modelled: Active (set_power) and RotationSpeed.
Handlers == { "power", "speed" }

\* What a handler invocation hands back to HomeKit when it ends: result is
\* "ok" when its promise resolves and "error" when it rejects; acked tells
\* whether the command realising the intent was answered ['ok'].
Return(k, res, ack) == [ kind |-> k, result |-> res, acked |-> ack ]

\* No handler ended.
NoRet == Return("none", "none", FALSE)

\* A JavaScript number: a finite one, or NaN.
Num(i) == [ finite |-> TRUE, n |-> i ]
NaN == [ finite |-> FALSE, n |-> 0 ]

\* Number(v) for the values HomeKit hands the RotationSpeed handler: in range,
\* below it, above it, and not a number.
Percents == { Num(50), Num(0 - 20), Num(130), NaN }

\* One callback run: which one, its input, and what it returned to HomeKit;
\* cmd is the RPC whose answer it handled, val the number an onSet was given,
\* updates the number of updateAllCharacteristics() calls it made and seen the
\* cache as the last of them read it.
Op(name, input, returned) ==
  [ op |-> name, arg |-> input, ret |-> returned, cmd |-> "", val |-> Num(0),
    updates |-> 0, seen |-> << >> ]

VARIABLES
  device,          \* this.device: 0 is null, otherwise the handle's identity
  state,           \* this.state: the cache, a function on the keys it holds
  pollInterval,    \* this.pollInterval: 0 is null, otherwise a timer id
  intervals,       \* interval timers that are active (set, not yet cleared)
  connecting,      \* miio.device() promises not yet settled
  reconnectTimers, \* pending setTimeout(() => this.connect(), 30000)
  repollTimers,    \* pending setTimeout(() => this.pollDeviceState(), 250)
  polls,           \* get_prop calls in flight: cur on the handle this.device
                   \* holds, old on handles it has since replaced
  writes,          \* bag of onSet handler invocations awaiting a device.call()
  lastOp           \* the callback that ran last, and what it returned to its
                   \* caller when it ended an onSet handler

vars == << device, state, pollInterval, intervals, connecting, reconnectTimers,
           repollTimers, polls, writes, lastOp >>

\* ---------------------------------------------------------------- helpers
PollsInFlight == polls.cur + polls.old

Pending ==
  connecting + reconnectTimers + repollTimers + PollsInFlight + BagCardinality(writes)

\* The object a successful miio.device() returns: never the one held. Handles
\* are compared by identity only, and a call in flight records whether its
\* handle is still the one held, so two identities are enough.
NewHandle == IF device = 1 THEN 2 ELSE 1

\* The id setInterval returns: one no active timer has.
NewTimer(active) == CHOOSE t \in 1 .. 3 : t \notin active /\ \A u \in 1 .. 3 : u \notin active => t <= u

\* this.state.mode, undefined while the cache has no such key.
CachedMode == IF "mode" \in DOMAIN state THEN state["mode"] ELSE "undefined"

\* Mutant of isMethodNotFound: the test matches no error.
isMethodNotFound_Never(o) == FALSE

\* isMethodNotFound(e) for the error a call that settled with outcome o throws.
isMethodNotFound(o) == o = "unsupported"

\* A handler invocation waiting for the answer to a device command: RPC step
\* pc (0: set_power, or the set_mode pre-switch of a speed write; i in 1..5:
\* tries[i]); cur tells whether the handle it was sent on is still held.
Waiting(k, step, c) == [ kind |-> k, pc |-> step, cur |-> c ]

\* The RPC name of the call a handler invocation w is waiting for.
Method(w) == IF w.kind = "power" THEN "set_power"
             ELSE IF w.pc = 0 THEN "set_mode" ELSE tries[w.pc]

\* The run of an onSet handler given the number v.
Invoked(k, v, returned) == [ Op("onSet", k, returned) EXCEPT !.val = v ]

\* The run that handled the answer o to the command invocation w waited for.
Settled(w, o, returned) == [ Op("callSettled", o, returned) EXCEPT !.cmd = Method(w) ]

\* A run that called updateAllCharacteristics() once, the cache being cache.
Notified(name, input, cache) ==
  [ Op(name, input, NoRet) EXCEPT !.updates = 1, !.seen = cache ]

\* ------------------------------------------------------------------ state
Init ==
  /\ device = 0
  /\ state = << >>
  /\ pollInterval = 0
  /\ intervals = {}
  /\ connecting = 1          \* the constructor's this.connect()
  /\ reconnectTimers = 0
  /\ repollTimers = 0
  /\ polls = [cur |-> 0, old |-> 0]
  /\ writes = EmptyBag
  /\ lastOp = Op("constructor", "", NoRet)

\* ------------------------------------------------------------- operations
\* connect() up to its await: one more miio.device() is opened.
connect == connecting' = connecting + 1

\* pollDeviceState() up to its await: a get_prop is sent on this.device, if any.
pollDeviceState ==
  IF device = 0 THEN polls' = polls
  ELSE polls' = [polls EXCEPT !.cur = @ + 1]

\* Mutant of connectResolved: the immediate pollDeviceState() call is missing.
connectResolved_NoImmediatePoll ==
  /\ device' = NewHandle
  /\ writes' = [w \in { Waiting(v.kind, v.pc, FALSE) : v \in DOMAIN writes } |->
                  (IF Waiting(w.kind, w.pc, TRUE) \in DOMAIN writes
                   THEN writes[Waiting(w.kind, w.pc, TRUE)] ELSE 0)
                  + (IF w \in DOMAIN writes THEN writes[w] ELSE 0)]
  /\ intervals' = (intervals \ {pollInterval}) \cup {NewTimer(intervals \ {pollInterval})}
  /\ pollInterval' = NewTimer(intervals \ {pollInterval})
  /\ polls' = [cur |-> 0, old |-> polls.old + polls.cur]
  /\ UNCHANGED reconnectTimers

\* Mutant of connectResolved: the stored interval is not cleared.
connectResolved_NoClear ==
  /\ device' = NewHandle
  /\ writes' = [w \in { Waiting(v.kind, v.pc, FALSE) : v \in DOMAIN writes } |->
                  (IF Waiting(w.kind, w.pc, TRUE) \in DOMAIN writes
                   THEN writes[Waiting(w.kind, w.pc, TRUE)] ELSE 0)
                  + (IF w \in DOMAIN writes THEN writes[w] ELSE 0)]
  /\ intervals' = intervals \cup {NewTimer(intervals)}
  /\ pollInterval' = NewTimer(intervals)
  /\ polls' = [cur |-> 1, old |-> polls.old + polls.cur]
  /\ UNCHANGED reconnectTimers

\* connect(): miio.device() resolved. The handle is replaced, so every call in
\* flight is from now on a call on a replaced handle; the stored interval is
\* cleared, one fetch is sent on the new handle and a new interval is set.
connectResolved ==
  /\ device' = NewHandle
  /\ writes' = [w \in { Waiting(v.kind, v.pc, FALSE) : v \in DOMAIN writes } |->
                  (IF Waiting(w.kind, w.pc, TRUE) \in DOMAIN writes
                   THEN writes[Waiting(w.kind, w.pc, TRUE)] ELSE 0)
                  + (IF w \in DOMAIN writes THEN writes[w] ELSE 0)]
  /\ intervals' = (intervals \ {pollInterval}) \cup {NewTimer(intervals \ {pollInterval})}
  /\ pollInterval' = NewTimer(intervals \ {pollInterval})
  /\ polls' = [cur |-> 1, old |-> polls.old + polls.cur]
  /\ UNCHANGED reconnectTimers

\* Mutant of connectRejected: the catch block logs and schedules no retry.
connectRejected_NoRetry ==
  UNCHANGED << reconnectTimers, device, intervals, pollInterval, polls, writes >>

\* Mutant of connectRejected: the catch block stops the poll interval.
connectRejected_StopsPolling ==
  /\ reconnectTimers' = reconnectTimers + 1
  /\ intervals' = intervals \ {pollInterval}
  /\ pollInterval' = 0
  /\ UNCHANGED << device, polls, writes >>

\* Mutant of connectRejected: the catch block drops the handle.
connectRejected_DropsHandle ==
  /\ reconnectTimers' = reconnectTimers + 1
  /\ device' = 0
  /\ UNCHANGED << intervals, pollInterval, polls, writes >>

\* connect(): miio.device() rejected.
connectRejected ==
  /\ reconnectTimers' = reconnectTimers + 1
  /\ UNCHANGED << device, intervals, pollInterval, polls, writes >>

ConnectSucceed ==
  /\ connecting > 0
  /\ connecting' = connecting - 1
  /\ connectResolved
  /\ lastOp' = Op("connectResolved", "", NoRet)
  /\ UNCHANGED << state, repollTimers >>

ConnectFail ==
  /\ connecting > 0
  /\ connecting' = connecting - 1
  /\ connectRejected
  /\ lastOp' = Op("connectRejected", "", NoRet)
  /\ UNCHANGED << state, repollTimers >>

\* The 30 s timer of a failed connect fires.
ReconnectFire ==
  /\ reconnectTimers > 0
  /\ reconnectTimers' = reconnectTimers - 1
  /\ connect
  /\ lastOp' = Op("reconnectTimer", "", NoRet)
  /\ UNCHANGED << device, state, pollInterval, intervals, repollTimers, polls, writes >>

\* An active interval timer ticks.
PollTick ==
  /\ intervals # {}
  /\ Pending < MaxPending
  /\ pollDeviceState
  /\ lastOp' = Op("pollTick", "", NoRet)
  /\ UNCHANGED << device, state, pollInterval, intervals, connecting, reconnectTimers,
                  repollTimers, writes >>

\* The 250 ms timer of an acknowledged write fires.
RepollFire ==
  /\ repollTimers > 0
  /\ repollTimers' = repollTimers - 1
  /\ pollDeviceState
  /\ lastOp' = Op("repollTimer", "", NoRet)
  /\ UNCHANGED << device, state, pollInterval, intervals, connecting, reconnectTimers,
                  writes >>

\* Mutant of pollResolved: only the first two properties are stored.
pollResolved_Partial(values) ==
  state' = [p \in (DOMAIN state) \cup { "power", "mode" } |->
              IF p \in { "power", "mode" } THEN values[p] ELSE state[p]]

\* pollDeviceState(): get_prop answered with values; props.forEach stores each.
pollResolved(values) ==
  state' = [p \in (DOMAIN state) \cup props |->
              IF p \in props THEN values[p] ELSE state[p]]

\* Mutant of pollRejected: the catch block resets the cache.
pollRejected_ClearsCache ==
  /\ state' = << >>
  /\ UNCHANGED << connecting, reconnectTimers, intervals, pollInterval >>

\* Mutant of pollRejected: the catch block calls connect(), as the one of
\* setPropertyValue does.
pollRejected_Reconnects ==
  /\ connect
  /\ UNCHANGED << state, reconnectTimers, intervals, pollInterval >>

\* pollDeviceState(): get_prop failed; the catch block only logs.
pollRejected ==
  UNCHANGED << state, connecting, reconnectTimers, intervals, pollInterval >>

\* Mutant of PollSucceed: updateAllCharacteristics() runs before the values
\* are stored.
PollSucceed_NotifiesFirst(c, values) ==
  /\ IF c THEN polls.cur > 0 ELSE polls.old > 0
  /\ polls' = IF c THEN [polls EXCEPT !.cur = @ - 1] ELSE [polls EXCEPT !.old = @ - 1]
  /\ pollResolved(values)
  /\ lastOp' = Notified("pollResolved", IF c THEN "cur" ELSE "old", state)
  /\ UNCHANGED << device, pollInterval, intervals, connecting, reconnectTimers,
                  repollTimers, writes >>

\* A get_prop in flight settles: c tells whether it was sent on the handle held.
\* The values are stored and updateAllCharacteristics() is called, with no
\* await in between.
PollSucceed(c, values) ==
  /\ IF c THEN polls.cur > 0 ELSE polls.old > 0
  /\ polls' = IF c THEN [polls EXCEPT !.cur = @ - 1] ELSE [polls EXCEPT !.old = @ - 1]
  /\ pollResolved(values)
  /\ lastOp' = Notified("pollResolved", IF c THEN "cur" ELSE "old", state')
  /\ UNCHANGED << device, pollInterval, intervals, connecting, reconnectTimers,
                  repollTimers, writes >>

PollFail(c) ==
  /\ IF c THEN polls.cur > 0 ELSE polls.old > 0
  /\ polls' = IF c THEN [polls EXCEPT !.cur = @ - 1] ELSE [polls EXCEPT !.old = @ - 1]
  /\ pollRejected
  /\ lastOp' = Op("pollRejected", IF c THEN "cur" ELSE "old", NoRet)
  /\ UNCHANGED << device, repollTimers, writes >>

\* ---------------------------------------------------------- write handlers
Put(w) == writes (+) SetToBag({w})
Replace(w, v) == (writes (-) SetToBag({w})) (+) SetToBag({v})
Take(w) == writes (-) SetToBag({w})

\* onSet of Active: setPropertyValue('set_power', ...) up to its await.
setPower ==
  IF device = 0
  THEN /\ lastOp' = Op("onSet", "power", Return("power", "error", FALSE))
       /\ UNCHANGED writes                    \* 'Device not connected'
  ELSE /\ writes' = Put(Waiting("power", 0, TRUE))
       /\ lastOp' = Op("onSet", "power", NoRet)

\* Mutant of setFavoriteLevelPercent: the pre-switch is sent whatever the
\* cached mode is.
setFavoriteLevelPercent_AlwaysSwitches(percent) ==
  IF device = 0
  THEN /\ lastOp' = Invoked("speed", percent, Return("speed", "ok", FALSE))
       /\ UNCHANGED writes
  ELSE /\ writes' = Put(Waiting("speed", 0, TRUE))
       /\ lastOp' = Invoked("speed", percent, NoRet)

\* onSet of RotationSpeed: setFavoriteLevelPercent() up to its first await that
\* reaches the network. With no device every setPropertyValue throws at once,
\* each throw is caught, and the function runs to its end. The percentage is
\* clamped and converted, never tested: no value makes the function throw.
setFavoriteLevelPercent(percent) ==
  IF device = 0
  THEN /\ lastOp' = Invoked("speed", percent, Return("speed", "ok", FALSE))
       /\ UNCHANGED writes
  ELSE /\ writes' = Put(Waiting("speed", IF CachedMode # "favorite" THEN 0 ELSE 1, TRUE))
       /\ lastOp' = Invoked("speed", percent, NoRet)

WriteStart(k, v) ==
  /\ device # 0 => Pending < MaxPending
  /\ IF k = "power" THEN v = Num(0) /\ setPower ELSE setFavoriteLevelPercent(v)
  /\ UNCHANGED << device, state, pollInterval, intervals, connecting, reconnectTimers,
                  repollTimers, polls >>

\* Mutant of setPropertyValueSettled: the catch block rethrows without calling
\* connect().
setPropertyValueSettled_NoReconnect(o) ==
  IF o = "ok"
  THEN /\ repollTimers' = repollTimers + 1
       /\ UNCHANGED connecting
  ELSE UNCHANGED << repollTimers, connecting >>

\* Mutant of setPropertyValueSettled: an ['ok'] schedules no re-poll.
setPropertyValueSettled_NoRepoll(o) ==
  IF o = "ok" \/ isMethodNotFound(o)
  THEN UNCHANGED << repollTimers, connecting >>
  ELSE /\ connect
       /\ UNCHANGED repollTimers

\* setPropertyValue() after its await, the call having settled with outcome o:
\* an ['ok'] schedules the re-poll, any failure that is not "method not found"
\* calls connect().
setPropertyValueSettled(o) ==
  IF o = "ok"
  THEN /\ repollTimers' = repollTimers + 1
       /\ UNCHANGED connecting
  ELSE IF isMethodNotFound(o)
  THEN UNCHANGED << repollTimers, connecting >>
  ELSE /\ connect
       /\ UNCHANGED repollTimers

\* What the Active handler returns once its setPropertyValue returned or threw.
powerReturns(o) ==
  Return("power", IF o = "ok" THEN "ok" ELSE "error", o = "ok")

\* What setFavoriteLevelPercent returns when its loop ends on outcome o: on
\* ['ok'] it returns from inside the loop; after the fifth failure it logs two
\* warnings and returns as well.
speedReturns(o) ==
  Return("speed", "ok", o = "ok")

\* Mutant of handlerContinues: the loop of setFavoriteLevelPercent goes on only
\* after "method not found" and rethrows every other failure.
handlerContinues_AbortsOnFailure(w, o) ==
  IF w.kind = "power"
  THEN /\ lastOp' = Settled(w, o, powerReturns(o))
       /\ writes' = Take(w)
  ELSE IF w.pc = 0
  THEN /\ writes' = Replace(w, Waiting("speed", 1, TRUE))
       /\ lastOp' = Settled(w, o, NoRet)
  ELSE IF o = "unsupported" /\ w.pc < Len(tries)
  THEN /\ writes' = Replace(w, Waiting("speed", w.pc + 1, TRUE))
       /\ lastOp' = Settled(w, o, NoRet)
  ELSE /\ lastOp' = Settled(w, o, Return("speed", IF o = "ok" THEN "ok" ELSE "error", o = "ok"))
       /\ writes' = Take(w)

\* Mutant of handlerContinues: the loop goes on after an ['ok'] as well.
handlerContinues_NoReturnOnOk(w, o) ==
  IF w.kind = "power"
  THEN /\ lastOp' = Settled(w, o, powerReturns(o))
       /\ writes' = Take(w)
  ELSE IF w.pc < Len(tries)
  THEN /\ writes' = Replace(w, Waiting("speed", w.pc + 1, TRUE))
       /\ lastOp' = Settled(w, o, NoRet)
  ELSE /\ lastOp' = Settled(w, o, speedReturns(o))
       /\ writes' = Take(w)

\* Mutant of handlerContinues: after the fifth failure the loop starts over.
handlerContinues_StartsOver(w, o) ==
  IF w.kind = "power"
  THEN /\ lastOp' = Settled(w, o, powerReturns(o))
       /\ writes' = Take(w)
  ELSE IF o = "ok" /\ w.pc > 0
  THEN /\ lastOp' = Settled(w, o, speedReturns(o))
       /\ writes' = Take(w)
  ELSE /\ writes' = Replace(w, Waiting("speed", IF w.pc < Len(tries) THEN w.pc + 1 ELSE 1, TRUE))
       /\ lastOp' = Settled(w, o, NoRet)

\* The handler's own continuation once setPropertyValue returned or threw.
handlerContinues(w, o) ==
  IF w.kind = "power"
  THEN /\ lastOp' = Settled(w, o, powerReturns(o))
       /\ writes' = Take(w)
  ELSE IF w.pc = 0
  THEN \* the pre-switch: its failure is caught, the loop starts
       /\ writes' = Replace(w, Waiting("speed", 1, TRUE))
       /\ lastOp' = Settled(w, o, NoRet)
  ELSE IF o # "ok" /\ w.pc < Len(tries)
  THEN /\ writes' = Replace(w, Waiting("speed", w.pc + 1, TRUE))
       /\ lastOp' = Settled(w, o, NoRet)
  ELSE /\ lastOp' = Settled(w, o, speedReturns(o))
       /\ writes' = Take(w)

CallSettle(w, o) ==
  /\ BagIn(w, writes)
  /\ setPropertyValueSettled(o)
  /\ handlerContinues(w, o)
  /\ UNCHANGED << device, state, pollInterval, intervals, reconnectTimers, polls >>
  /\ Pending' <= MaxPending

\* ------------------------------------------------------------ specification
Next ==
  \/ ConnectSucceed
  \/ ConnectFail
  \/ ReconnectFire
  \/ PollTick
  \/ RepollFire
  \/ \E c \in BOOLEAN, values \in FetchResults : PollSucceed(c, values)
  \/ \E c \in BOOLEAN : PollFail(c)
  \/ \E k \in Handlers, v \in Percents \cup { Num(0) } : WriteStart(k, v)
  \/ \E w \in DOMAIN writes, o \in Outcomes : CallSettle(w, o)

Spec == Init /\ [][Next]_vars

\* Timers fire and promises settle: Node's event loop runs every timer that is
\* due, and miio.device() resolves or rejects once its handshake ends.
LiveSpec ==
  /\ Spec
  /\ WF_vars(ReconnectFire)
  /\ WF_vars(RepollFire)
  /\ WF_vars(ConnectSucceed \/ ConnectFail)

TypeOK ==
  /\ device \in 0 .. 2
  /\ connecting >= 0 /\ reconnectTimers >= 0 /\ repollTimers >= 0
  /\ polls.cur >= 0 /\ polls.old >= 0
  /\ Pending <= MaxPending
  /\ \A w \in DOMAIN writes : writes[w] > 0

\* ------------------------------------------------------------- conversions
\* The pure computations of the handler: what the constructor derives from the
\* configuration, what updateAllCharacteristics() publishes for a cached value
\* and what the write handlers send for a requested one.

\* Largest threshold value, other than the default ones, the configurations
\* drawn below hold.
MaxThreshold == 2

\* The values of Characteristic.AirQuality.
UNKNOWN == 0
EXCELLENT == 1
GOOD == 2
FAIR == 3
INFERIOR == 4
POOR == 5

\* The other non-finite number.
Infinity == [ finite |-> FALSE, n |-> 1 ]

\* JavaScript values a configuration entry or a device answer can be.
JsNumber(x) == [ type |-> "number", num |-> x, str |-> "" ]
JsString(chars) == [ type |-> "string", num |-> NaN, str |-> chars ]
JsNull == [ type |-> "null", num |-> NaN, str |-> "" ]
JsUndefined == [ type |-> "undefined", num |-> NaN, str |-> "" ]
JsBoolean(b) == [ type |-> "boolean", num |-> Num(IF b THEN 1 ELSE 0), str |-> "" ]

\* Number(v) on a string, for the strings drawn below: the empty string is 0,
\* a decimal numeral is its value, any other text is NaN.
StringToNumber(chars) ==
  IF chars = "" THEN Num(0)
  ELSE IF \E i \in 0 .. MaxThreshold : ToString(i) = chars
  THEN Num(CHOOSE i \in 0 .. MaxThreshold : ToString(i) = chars)
  ELSE NaN

\* Number(v): a number is itself, true is 1, false and null are 0, undefined
\* is NaN.
Number(v) ==
  CASE v.type = "number" -> v.num
    [] v.type = "string" -> StringToNumber(v.str)
    [] v.type = "boolean" -> v.num
    [] v.type = "null" -> Num(0)
    [] OTHER -> NaN

\* supportedModels: the config.type values a handler is constructed for.
supportedModels == { "MiAirPurifier2S", "MiAirPurifierPro" }

\* Mutant of maxFavoriteLevel: one maximum for every model.
maxFavoriteLevel_Always16(type) == 16

\* this.maxFavoriteLevel, as the constructor sets it.
maxFavoriteLevel(type) == IF type = "MiAirPurifier2S" THEN 14 ELSE 16

\* const def of parseAqThresholds.
def == << Num(5), Num(15), Num(35), Num(55) >>

\* cand.every(finite and >= 0) and cand in non-decreasing order.
Accepted(cand) ==
  /\ \A i \in 1 .. 4 : cand[i].finite /\ cand[i].n >= 0
  /\ \A i \in 1 .. 3 : cand[i].n <= cand[i + 1].n

\* parseAqThresholds(conf): conf is undefined, an array of entries, or an
\* object whose t1..t4 are read (undefined for a key it lacks).
parseAqThresholds(conf) ==
  LET cand == [i \in 1 .. Len(conf.items) |-> Number(conf.items[i])]
  IN IF conf.kind = "object" /\ Accepted(cand) THEN cand
     ELSE IF conf.kind = "array" /\ Len(conf.items) = 4 /\ Accepted(cand) THEN cand
     ELSE def

\* Mutant of mapAqiToHomeKitLevel: the bands end below their threshold.
mapAqiToHomeKitLevel_Strict(aqi, t) ==
  IF ~aqi.finite THEN UNKNOWN
  ELSE IF aqi.n < t[1].n THEN EXCELLENT
  ELSE IF aqi.n < t[2].n THEN GOOD
  ELSE IF aqi.n < t[3].n THEN FAIR
  ELSE IF aqi.n < t[4].n THEN INFERIOR
  ELSE POOR

\* Mutant of mapAqiToHomeKitLevel: the two middle bands are exchanged.
mapAqiToHomeKitLevel_BandsExchanged(aqi, t) ==
  IF ~aqi.finite THEN UNKNOWN
  ELSE IF aqi.n <= t[1].n THEN EXCELLENT
  ELSE IF aqi.n <= t[2].n THEN FAIR
  ELSE IF aqi.n <= t[3].n THEN GOOD
  ELSE IF aqi.n <= t[4].n THEN INFERIOR
  ELSE POOR

\* mapAqiToHomeKitLevel(aqi, t) for a number aqi and thresholds t.
mapAqiToHomeKitLevel(aqi, t) ==
  IF ~aqi.finite THEN UNKNOWN
  ELSE IF aqi.n <= t[1].n THEN EXCELLENT
  ELSE IF aqi.n <= t[2].n THEN GOOD
  ELSE IF aqi.n <= t[3].n THEN FAIR
  ELSE IF aqi.n <= t[4].n THEN INFERIOR
  ELSE POOR

\* updateAllCharacteristics(), air quality: the level published for the cached
\* aqi value raw.
airQuality(raw, t) == mapAqiToHomeKitLevel(Number(raw), t)

\* Math.round(a / b) for b > 0: the nearest integer, a half going up.
Round(a, b) == (2 * a + b) \div (2 * b)

\* Math.max(lo, Math.min(hi, x)) on integers.
Clamp(lo, hi, x) == IF x < lo THEN lo ELSE IF x > hi THEN hi ELSE x

\* Mutant of targetLevel: the lower clamp is 0.
targetLevel_FromZero(percent, max) ==
  IF ~percent.finite THEN NaN
  ELSE Num(Clamp(0, max, Round(Clamp(0, 100, percent.n) * max, 100)))

\* setFavoriteLevelPercent(), level and target: the level sent for the number
\* percent. Math.max and Math.min hand NaN through.
targetLevel(percent, max) ==
  IF ~percent.finite THEN NaN
  ELSE Num(Clamp(1, max, Round(Clamp(0, 100, percent.n) * max, 100)))

\* Mutant of rotationSpeed: the level is published as it is, unscaled.
rotationSpeed_Unscaled(raw, max) ==
  IF Number(raw).finite THEN Clamp(0, 100, Number(raw).n) ELSE 0

\* updateAllCharacteristics(), rotation speed: the percentage published for
\* the cached favorite_level value raw.
rotationSpeed(raw, max) ==
  IF Number(raw).finite THEN Clamp(0, 100, Round(Number(raw).n * 100, max)) ELSE 0

\* Mutant of ledCommand: the plain command for every model.
ledCommand_Plain(type, v) ==
  [ method |-> "set_led", args |-> JsString(IF v THEN "on" ELSE "off") ]

\* The LED switch's onSet: the command it hands to setPropertyValue.
ledCommand(type, v) ==
  IF type = "MiAirPurifierPro"
  THEN [ method |-> "set_led_b", args |-> JsNumber(Num(IF v THEN 0 ELSE 2)) ]
  ELSE [ method |-> "set_led", args |-> JsString(IF v THEN "on" ELSE "off") ]

\* No command: what a handler that calls setPropertyValue not at all picks.
NoCommand == [ method |-> "", args |-> JsUndefined ]

\* Mutant of modeSwitchCommand: turned off, the switch reverts to 'auto'
\* whatever the cached mode is.
modeSwitchCommand_AlwaysReverts(modeValue, value, cached) ==
  IF value
  THEN [ method |-> "set_mode", args |-> JsString(modeValue) ]
  ELSE [ method |-> "set_mode", args |-> JsString("auto") ]

\* A mode switch's onSet: the command it hands to setPropertyValue, if any,
\* for the switch of mode modeValue given value, this.state.mode being cached.
modeSwitchCommand(modeValue, value, cached) ==
  IF value
  THEN [ method |-> "set_mode", args |-> JsString(modeValue) ]
  ELSE IF cached = JsString(modeValue)
  THEN [ method |-> "set_mode", args |-> JsString("auto") ]
  ELSE NoCommand

\* Inputs. Entries of a threshold configuration: numbers from -1 up, a numeral
\* and a word as strings, null, undefined.
Entries ==
  { JsNumber(Num(i)) : i \in (0 - 1) .. MaxThreshold }
    \cup { JsString("1"), JsString("high"), JsNull, JsUndefined }

\* config.airQualityThresholds: missing, an array of three or four entries,
\* an object with t1..t4.
Confs ==
  { [ kind |-> "undefined", items |-> << >> ] }
    \cup { [ kind |-> k, items |-> << a, b, c, d >> ] :
             k \in { "array", "object" }, a \in Entries, b \in Entries,
             c \in Entries, d \in Entries }
    \cup { [ kind |-> "array", items |-> << a, a, b >> ] : a \in Entries, b \in Entries }

\* this.aqThresholds: the default, or four accepted numbers.
ThresholdSets ==
  { def } \cup { t \in [1 .. 4 -> { Num(i) : i \in 0 .. MaxThreshold }] : Accepted(t) }

\* Cached aqi values: numbers around every threshold, 40, NaN, Infinity and
\* the text a device without sensor data answers.
AqiValues ==
  { JsNumber(Num(i)) :
      i \in ((0 - 1) .. (MaxThreshold + 1)) \cup { def[j].n + e : j \in 1 .. 4, e \in 0 .. 1 }
              \cup { 40 } }
    \cup { JsNumber(NaN), JsNumber(Infinity), JsString("n/a") }

\* Requested percentages: every integer of HomeKit's range, and the values
\* outside it.
Requests == { Num(i) : i \in 0 .. 100 } \cup Percents

\* Cached favorite_level values: the levels of the largest model maximum.
Levels == { JsNumber(Num(i)) : i \in 0 .. 16 }

\* Cached favorite_level values of other kinds: negative, above every maximum,
\* no finite number, and no number at all.
OddLevels ==
  { JsNumber(Num(0 - 3)), JsNumber(Num(17)), JsNumber(Num(40)), JsNumber(NaN),
    JsNumber(Infinity), JsString("n/a"), JsString(""), JsString("1"), JsNull,
    JsUndefined, JsBoolean(TRUE), JsBoolean(FALSE) }

\* The modes the three mode switches are set up for.
ModeValues == { "auto", "silent", "favorite" }

\* this.state.mode: undefined before the first fetch, then what the device
\* answered.
CachedModes == { JsUndefined } \cup { JsString(m) : m \in ModeValues \cup { "idle" } }

\* A computation about to be made on input, and the one made, with its result.
Call(input) == Op("call", input, NoRet)
Returned(input, result) == Op(input.fn, input, result)

\* A handler being constructed or running, about to make one computation.
ConvInit ==
  /\ Init!1 /\ Init!2 /\ Init!3 /\ Init!4 /\ Init!5 /\ Init!6 /\ Init!7 /\ Init!8 /\ Init!9
  /\ \/ \E conf \in Confs :
          lastOp = Call([ fn |-> "parseAqThresholds", conf |-> conf ])
     \/ \E t \in ThresholdSets, a \in AqiValues, b \in AqiValues :
          lastOp = Call([ fn |-> "airQuality", t |-> t, a |-> a, b |-> b ])
     \/ \E type \in supportedModels, percent \in Requests :
          lastOp = Call([ fn |-> "targetLevel", type |-> type, percent |-> percent ])
     \/ \E type \in supportedModels, raw \in Levels \cup OddLevels :
          lastOp = Call([ fn |-> "rotationSpeed", type |-> type, raw |-> raw ])
     \/ \E m \in ModeValues, v \in BOOLEAN, cached \in CachedModes :
          lastOp = Call([ fn |-> "modeSwitchCommand", modeValue |-> m, value |-> v,
                          cached |-> cached ])
     \/ \E type \in supportedModels, v \in BOOLEAN :
          lastOp = Call([ fn |-> "ledCommand", type |-> type, v |-> v ])

Calling(name) == lastOp.op = "call" /\ lastOp.arg.fn = name

Unaffected ==
  UNCHANGED << device, state, pollInterval, intervals, connecting, reconnectTimers,
               repollTimers, polls, writes >>

\* The constructor parses config.airQualityThresholds.
ParseThresholds ==
  /\ Calling("parseAqThresholds")
  /\ lastOp' = Returned(lastOp.arg, parseAqThresholds(lastOp.arg.conf))
  /\ Unaffected

\* updateAllCharacteristics() classifies a cached aqi value; made for two
\* values under the same thresholds.
ClassifyAirQuality ==
  /\ Calling("airQuality")
  /\ lastOp' = Returned(lastOp.arg, << airQuality(lastOp.arg.a, lastOp.arg.t),
                                       airQuality(lastOp.arg.b, lastOp.arg.t) >>)
  /\ Unaffected

\* setFavoriteLevelPercent() computes the level it will send.
ComputeTarget ==
  /\ Calling("targetLevel")
  /\ lastOp' = Returned(lastOp.arg,
                        targetLevel(lastOp.arg.percent, maxFavoriteLevel(lastOp.arg.type)))
  /\ Unaffected

\* updateAllCharacteristics() publishes the rotation speed of a cached level;
\* back is the level a write of that very percentage would send.
PublishSpeed ==
  /\ Calling("rotationSpeed")
  /\ LET max == maxFavoriteLevel(lastOp.arg.type)
         speed == rotationSpeed(lastOp.arg.raw, max)
     IN lastOp' = Returned(lastOp.arg, [ speed |-> speed, back |-> targetLevel(Num(speed), max) ])
  /\ Unaffected

\* The LED switch's onSet picks its command.
PickLedCommand ==
  /\ Calling("ledCommand")
  /\ lastOp' = Returned(lastOp.arg, ledCommand(lastOp.arg.type, lastOp.arg.v))
  /\ Unaffected

\* A mode switch's onSet picks its command, or none.
PickModeCommand ==
  /\ Calling("modeSwitchCommand")
  /\ lastOp' = Returned(lastOp.arg, modeSwitchCommand(lastOp.arg.modeValue, lastOp.arg.value,
                                                      lastOp.arg.cached))
  /\ Unaffected

ConvNext ==
  \/ ParseThresholds
  \/ ClassifyAirQuality
  \/ ComputeTarget
  \/ PublishSpeed
  \/ PickLedCommand
  \/ PickModeCommand

ConvSpec == ConvInit /\ [][ConvNext]_vars

\* ------------------------------------------------------------------ claims
\* A step in which connect() was called: by a reconnect timer, or by
\* setPropertyValue's catch block.
ConnectCalled ==
  \/ lastOp'.op = "reconnectTimer"
  \/ lastOp'.op = "callSettled" /\ lastOp'.arg \in { "rejected", "transport" }

\* C1: at most one reconnect timer (the 30 s retry of connect's failure path)
\* is pending at any time.
C1_AtMostOneReconnectTimer == reconnectTimers <= 1

\* C2: never two session-open attempts in flight at once, and never one in
\* flight while a session handle is held.
C2_OneSessionOpen ==
  /\ connecting <= 1
  /\ ~(connecting > 0 /\ device # 0)

\* C3: connect() called while an attempt is in flight or while a handle is held
\* opens no new transport handle, starts no poll interval and leaves the
\* device handle unchanged.
C3_ConnectIdempotent ==
  [][(connecting > 0 \/ device # 0) /\ ConnectCalled
       => connecting' = connecting /\ intervals' = intervals /\ device' = device]_vars

\* C4: when a connect attempt has just succeeded, no reconnect timer is pending.
C4_NoTimerAfterSuccess ==
  lastOp.op = "connectResolved" => reconnectTimers = 0

\* C5: every failed connect attempt schedules exactly one reconnect timer, every
\* such timer that fires starts exactly one connect attempt, a pending timer
\* leads to a new attempt, with no handle held a connect attempt is always
\* eventually in flight, and once an attempt has succeeded a handle is held.
C5_RetriesForever ==
  /\ [][lastOp'.op = "connectRejected"
          => reconnectTimers' = reconnectTimers + 1 /\ connecting' = connecting - 1]_vars
  /\ [][lastOp'.op = "reconnectTimer"
          => reconnectTimers' = reconnectTimers - 1 /\ connecting' = connecting + 1]_vars
  /\ (reconnectTimers > 0) ~> (lastOp.op = "reconnectTimer")
  /\ (device = 0) ~> (connecting > 0)
  /\ [](lastOp.op = "connectResolved" => device # 0)

\* C5 witness: a connect attempt failed with no handle held and its timer is
\* pending.
C5_Witness ==
  lastOp.op = "connectRejected" /\ device = 0 /\ reconnectTimers = 1 /\ connecting = 0

C7_PollAtConnectAndEachTick ==
  /\ [][lastOp'.op = "connectResolved"
          => device' # 0 /\ polls'.cur = 1 /\ pollInterval' \in intervals']_vars
  /\ [][lastOp'.op = "pollTick" => polls'.cur = polls.cur + 1]_vars
  /\ [](device # 0 => pollInterval \in intervals)

\* C7 witness: with a handle held, a tick has just sent a fetch on it.
C7_Witness ==
  lastOp.op = "pollTick" /\ device # 0 /\ polls.cur = 1 /\ "mode" \in DOMAIN state

\* C8: a failed fetch leaves every key of the cache as it was; a successful
\* fetch leaves the cache holding exactly the values fetched.
C8_FailedPollKeepsCache ==
  /\ [][lastOp'.op = "pollRejected" => state' = state]_vars
  /\ [][\A c \in BOOLEAN, values \in FetchResults :
          PollSucceed(c, values) => \A p \in DOMAIN state' : state'[p] = values[p]]_vars
  /\ [][lastOp'.op = "pollResolved" => DOMAIN state' = props]_vars

\* C8 witness: a fetch failed while the cache held the values of an earlier one.
C8_Witness ==
  lastOp.op = "pollRejected" /\ "mode" \in DOMAIN state

\* C9: a failed fetch calls no connect, schedules no reconnect timer and leaves
\* the poll interval set, so the next tick fetches again.
C9_FailedPollDoesNotReconnect ==
  /\ [][lastOp'.op = "pollRejected"
          => /\ connecting' = connecting
             /\ reconnectTimers' = reconnectTimers
             /\ intervals' = intervals
             /\ pollInterval' = pollInterval]_vars
  /\ [](lastOp.op = "pollRejected" /\ lastOp.arg = "cur" => ENABLED PollTick)

\* C9 witness: a fetch on the held handle failed and neither a connect attempt
\* nor a reconnect timer exists.
C9_Witness ==
  lastOp.op = "pollRejected" /\ lastOp.arg = "cur" /\ connecting = 0 /\ reconnectTimers = 0

\* C10: a handler that issued a device command reports success to its caller
\* exactly when the command realising the intent was answered ['ok'].
C10_SuccessOnlyIfAcked ==
  lastOp.op = "callSettled" /\ lastOp.ret.kind # "none"
    => (lastOp.ret.result = "ok" <=> lastOp.ret.acked)

\* Speed-write invocations waiting at RPC step i, on whatever handle.
AtStep(i, bag) ==
  CopiesIn(Waiting("speed", i, TRUE), bag) + CopiesIn(Waiting("speed", i, FALSE), bag)

\* A step that sent RPC step i of a speed write.
SentStep(i) == AtStep(i, writes') > AtStep(i, writes)

\* A step that handled the answer to candidate i of a speed write.
CandidateSettled(i) == lastOp'.op = "callSettled" /\ lastOp'.cmd = tries[i]

C13_OnePreSwitch ==
  /\ [][lastOp'.op = "onSet" /\ lastOp'.arg = "speed" /\ device # 0
          => IF CachedMode # "favorite"
             THEN /\ AtStep(0, writes') = AtStep(0, writes) + 1
                  /\ ~SentStep(1)
             ELSE /\ AtStep(1, writes') = AtStep(1, writes) + 1
                  /\ ~SentStep(0)]_vars
  /\ [][SentStep(0) => lastOp'.op = "onSet"]_vars
  /\ [][lastOp'.op = "callSettled" /\ lastOp'.cmd = "set_mode"
          => /\ AtStep(0, writes') = AtStep(0, writes) - 1
             /\ AtStep(1, writes') = AtStep(1, writes) + 1
             /\ lastOp'.ret = NoRet]_vars

\* C13 witness: the pre-switch failed in transport and the first candidate is
\* in flight.
C13_Witness ==
  /\ lastOp.op = "callSettled" /\ lastOp.cmd = "set_mode" /\ lastOp.arg = "transport"
  /\ BagIn(Waiting("speed", 1, TRUE), writes)

\* C14: a write answered with a non-'ok' result starts no connect attempt,
\* schedules no reconnect timer and leaves the handle as it is.
C14_RejectionDoesNotReconnect ==
  [][lastOp'.op = "callSettled" /\ lastOp'.arg = "rejected"
       => /\ connecting' = connecting
          /\ reconnectTimers' = reconnectTimers
          /\ device' = device]_vars

\* C15: a write that fails with "method not found" starts no connect attempt and
\* schedules no timer, and the Active handler, which calls setPropertyValue and
\* nothing else, rejects.
C15_UnsupportedDoesNotReconnect ==
  [][lastOp'.op = "callSettled" /\ lastOp'.arg = "unsupported"
       => /\ connecting' = connecting
          /\ reconnectTimers' = reconnectTimers
          /\ repollTimers' = repollTimers
          /\ lastOp'.cmd = "set_power" => lastOp'.ret.result = "error"]_vars

\* C15 witness: set_power failed with "method not found", the handler rejected
\* and no connect attempt or reconnect timer exists.
C15_Witness ==
  /\ lastOp.op = "callSettled" /\ lastOp.cmd = "set_power" /\ lastOp.arg = "unsupported"
  /\ lastOp.ret.result = "error"
  /\ connecting = 0 /\ reconnectTimers = 0

\* C16: a write invoked while no connect attempt has succeeded yet ends at once
\* with an error for its caller.
C16_NotConnectedIsAnError ==
  lastOp.op = "onSet" /\ device = 0 => lastOp.ret.result = "error"

\* C17: a speed write whose value is outside 0..100 or is not a number ends at
\* once with an error for its caller and sends no command (stated with a
\* handle held, so that the not-connected path plays no part).
C17_BadValueIsRejected ==
  [][( /\ lastOp'.op = "onSet" /\ lastOp'.arg = "speed" /\ device # 0
       /\ ~(lastOp'.val.finite /\ lastOp'.val.n \in 0 .. 100) )
       => lastOp'.ret.result = "error" /\ writes' = writes]_vars

\* C18: an 'ok' schedules exactly one re-poll timer, no other answer and no
\* other step schedules one, every such timer fires, and when it fires one
\* fetch is sent on the held handle.
C18_RepollAfterAck ==
  /\ [][lastOp'.op = "callSettled" /\ lastOp'.arg = "ok"
          => repollTimers' = repollTimers + 1]_vars
  /\ [][repollTimers' > repollTimers
          => lastOp'.op = "callSettled" /\ lastOp'.arg = "ok"]_vars
  /\ [][lastOp'.op = "repollTimer"
          => repollTimers' = repollTimers - 1 /\ polls'.cur = polls.cur + 1]_vars
  /\ (repollTimers > 0) ~> (lastOp.op = "repollTimer")

\* C18 witness: a re-poll timer has just fired and its fetch is in flight.
C18_Witness ==
  lastOp.op = "repollTimer" /\ polls.cur > 0 /\ repollTimers = 0

\* C19: the answer to a fetch sent on a handle that has been replaced since
\* leaves the cache as it was.
C19_StaleAnswerDiscarded ==
  [][lastOp'.op = "pollResolved" /\ lastOp'.arg = "old" => state' = state]_vars

\* C20: at most one device call, fetch or command, is in flight on the held
\* handle.
C20_OneCallPerHandle ==
  polls.cur + BagCardinality([w \in { v \in DOMAIN writes : v.cur } |-> writes[w]]) <= 1

\* C21: between callbacks the cache is empty or holds the nine values of one
\* fetch; every successful fetch leaves exactly its own values in the cache,
\* whatever was there and whatever other fetch is in flight, and these are the
\* values the update notification reads.
C21_CacheIsOneFetch ==
  /\ [](state = << >> \/ state \in FetchResults)
  /\ [][\A c \in BOOLEAN, values \in FetchResults :
          PollSucceed(c, values) => state' = values /\ lastOp'.seen = values]_vars

\* C21 witness: of two fetches in flight on the held handle one has completed
\* and its values are the cache, the other being still in flight.
C21_Witness ==
  /\ lastOp.op = "pollResolved" /\ lastOp.arg = "cur"
  /\ state \in FetchResults /\ lastOp.seen = state
  /\ polls.cur > 0

\* C22: the cache holds no 'on'/'off' string: power, led and buzzer are held as
\* booleans.
C22_CacheIsNormalized ==
  \A p \in DOMAIN state \cap { "power", "led", "buzzer" } : state[p] \notin { "on", "off" }

\* C23: a successful fetch calls updateAllCharacteristics() exactly once, on the
\* cache as the fetch left it; a failed fetch calls it not at all and no other
\* callback does.
C23_OneUpdatePerFetch ==
  /\ [][lastOp'.op = "pollResolved"
          => lastOp'.updates = 1 /\ lastOp'.seen = state' /\ state' \in FetchResults]_vars
  /\ [][lastOp'.op # "pollResolved" => lastOp'.updates = 0 /\ state' = state]_vars

\* C23 witness: a fetch has failed after an earlier one succeeded, with no
\* notification and the cache as it was.
C23_Witness ==
  lastOp.op = "pollRejected" /\ lastOp.updates = 0 /\ state \in FetchResults

\* A configuration as the claim takes a valid one: an array of four or an
\* object whose four entries are numbers (a numeral in a string counted as
\* one), finite, not negative and in non-decreasing order.
WellFormed(conf) ==
  /\ conf.kind \in { "array", "object" }
  /\ Len(conf.items) = 4
  /\ \A i \in 1 .. 4 :
       \/ conf.items[i].type = "number"
       \/ conf.items[i].type = "string" /\ conf.items[i].str # ""
            /\ StringToNumber(conf.items[i].str).finite
  /\ Accepted([i \in 1 .. 4 |-> Number(conf.items[i])])

\* C24: parseAqThresholds returns four finite non-negative numbers in
\* non-decreasing order: the configuration's own four when it is well formed,
\* the default for every other configuration.
C24_OwnValuesOrDefault ==
  lastOp.op = "parseAqThresholds"
    => /\ Accepted(lastOp.ret)
       /\ lastOp.ret = IF WellFormed(lastOp.arg.conf)
                       THEN [i \in 1 .. 4 |-> Number(lastOp.arg.conf.items[i])]
                       ELSE def

\* C25: for a finite aqi the level is 1 plus the number of thresholds strictly
\* below it, for a value that is no finite number it is UNKNOWN; under the
\* default thresholds 40 is INFERIOR and 'n/a' is UNKNOWN.
C25_LevelCountsThresholdsBelow ==
  lastOp.op = "airQuality"
    => LET aqi == Number(lastOp.arg.a)
           t == lastOp.arg.t
           level == lastOp.ret[1]
       IN /\ aqi.finite => level = 1 + Cardinality({ i \in 1 .. 4 : t[i].n < aqi.n })
          /\ ~aqi.finite => level = UNKNOWN
          /\ t = def /\ lastOp.arg.a = JsNumber(Num(40)) => level = INFERIOR
          /\ t = def /\ lastOp.arg.a = JsString("n/a") => level = UNKNOWN

\* C25 witness: 40 has been classified under the default thresholds.
C25_Witness ==
  /\ lastOp.op = "airQuality" /\ lastOp.arg.t = def
  /\ lastOp.arg.a = JsNumber(Num(40)) /\ lastOp.ret[1] = INFERIOR

\* C26: under the same thresholds, of two finite aqi values the smaller one
\* gets no higher a level than the larger.
C26_LevelIsMonotonic ==
  lastOp.op = "airQuality"
    => LET a == Number(lastOp.arg.a)
           b == Number(lastOp.arg.b)
       IN a.finite /\ b.finite /\ a.n <= b.n => lastOp.ret[1] <= lastOp.ret[2]

\* C26 witness: two values in different bands of thresholds that are not the
\* default ones.
C26_Witness ==
  /\ lastOp.op = "airQuality" /\ lastOp.arg.t # def
  /\ Number(lastOp.arg.a).finite /\ Number(lastOp.arg.b).finite
  /\ Number(lastOp.arg.a).n < Number(lastOp.arg.b).n
  /\ lastOp.ret[1] < lastOp.ret[2]

\* The model maximum the claims name: 14 for MiAirPurifier2S, 16 otherwise.
ModelMax(type) == IF type = "MiAirPurifier2S" THEN 14 ELSE 16

\* r is x / y rounded to the nearest integer, a half going up (y > 0).
IsRounded(r, x, y) == 0 - y < 2 * (y * r - x) /\ 2 * (y * r - x) <= y

\* C27: for a percentage in 0..100 the level sent is percent / 100 * modelMax
\* rounded, raised to 1 when that is 0, so it is in 1..modelMax; with maximum 14
\* a request of 50 sends 7.
C27_TargetIsRoundedAndClamped ==
  lastOp.op = "targetLevel" /\ lastOp.arg.percent.finite /\ lastOp.arg.percent.n \in 0 .. 100
    => LET max == ModelMax(lastOp.arg.type)
           p == lastOp.arg.percent.n
       IN /\ lastOp.ret.finite /\ lastOp.ret.n \in 1 .. max
          /\ \E r \in 0 .. max :
               IsRounded(r, p * max, 100) /\ lastOp.ret.n = (IF r = 0 THEN 1 ELSE r)
          /\ max = 14 /\ p = 50 => lastOp.ret.n = 7

\* C27 witness: a request of 0 % has been converted, to level 1.
C27_Witness ==
  /\ lastOp.op = "targetLevel" /\ lastOp.arg.percent = Num(0)
  /\ lastOp.ret = Num(1)

\* C28: for a cached level in 0..modelMax the rotation speed published is
\* level / modelMax * 100 rounded.
C28_SpeedIsRounded ==
  ( /\ lastOp.op = "rotationSpeed"
    /\ lastOp.arg.raw.type = "number" /\ lastOp.arg.raw.num.finite
    /\ lastOp.arg.raw.num.n \in 0 .. ModelMax(lastOp.arg.type) )
    => IsRounded(lastOp.ret.speed, lastOp.arg.raw.num.n * 100, ModelMax(lastOp.arg.type))

\* C28 witness: level 7 of a MiAirPurifier2S has been published as 50.
C28_Witness ==
  /\ lastOp.op = "rotationSpeed" /\ lastOp.arg.type = "MiAirPurifier2S"
  /\ lastOp.arg.raw = JsNumber(Num(7)) /\ lastOp.ret.speed = 50

\* C29: a level in 1..modelMax, published as a percentage and written back as
\* that percentage, comes back within 1 of itself.
C29_RoundTripWithinOne ==
  ( /\ lastOp.op = "rotationSpeed"
    /\ lastOp.arg.raw.type = "number" /\ lastOp.arg.raw.num.finite
    /\ lastOp.arg.raw.num.n \in 1 .. ModelMax(lastOp.arg.type) )
    => /\ lastOp.ret.back.finite
       /\ lastOp.ret.back.n - lastOp.arg.raw.num.n \in (0 - 1) .. 1

\* C29 witness: level 13 of a MiAirPurifierPro has made the round trip through
\* 81 %.
C29_Witness ==
  /\ lastOp.op = "rotationSpeed" /\ lastOp.arg.type = "MiAirPurifierPro"
  /\ lastOp.arg.raw = JsNumber(Num(13)) /\ lastOp.ret.speed = 81
  /\ lastOp.ret.back = Num(13)

\* C30: the LED switch of a MiAirPurifierPro picks set_led_b, with 0 for on and
\* 2 for off; that of any other model picks set_led with 'on' or 'off'.
C30_LedCommandByModel ==
  lastOp.op = "ledCommand"
    => IF lastOp.arg.type = "MiAirPurifierPro"
       THEN /\ lastOp.ret.method = "set_led_b"
            /\ lastOp.ret.args = JsNumber(Num(IF lastOp.arg.v THEN 0 ELSE 2))
       ELSE /\ lastOp.ret.method = "set_led"
            /\ lastOp.ret.args = JsString(IF lastOp.arg.v THEN "on" ELSE "off")

\* C30 witness: the switch of a MiAirPurifierPro turned on has picked set_led_b
\* with 0.
C30_Witness ==
  /\ lastOp.op = "ledCommand" /\ lastOp.arg.type = "MiAirPurifierPro" /\ lastOp.arg.v
  /\ lastOp.ret.method = "set_led_b" /\ lastOp.ret.args = JsNumber(Num(0))

\* C31: at most one interval timer is active, and it is the stored one.
C31_OnePollInterval ==
  /\ Cardinality(intervals) <= 1
  /\ pollInterval # 0 => intervals = { pollInterval }
  /\ pollInterval = 0 => intervals = {}

\* C31 witness: connect has succeeded a second time while an earlier attempt's
\* reconnect timer is still pending, and one interval is active.
C31_Witness ==
  /\ lastOp.op = "connectResolved" /\ device = 2
  /\ reconnectTimers > 0
  /\ Cardinality(intervals) = 1

\* C32: a failed connect attempt leaves the handle, the cache, the interval
\* timer and every call in flight as they were.
C32_FailedConnectChangesNothing ==
  [][lastOp'.op = "connectRejected"
       => /\ device' = device /\ state' = state
          /\ pollInterval' = pollInterval /\ intervals' = intervals
          /\ polls' = polls /\ writes' = writes]_vars

\* C32 witness: a connect attempt has failed on a handler that holds a handle,
\* a filled cache and an active interval, with a fetch in flight on the handle.
C32_Witness ==
  /\ lastOp.op = "connectRejected"
  /\ device # 0 /\ state \in FetchResults /\ intervals # {} /\ polls.cur > 0

\* C33: a held handle is never given up, and a write invoked while a handle is
\* held sends its first command instead of ending at once.
C33_HandleIsNeverDropped ==
  /\ [][device # 0 => device' # 0]_vars
  /\ [][lastOp'.op = "onSet" /\ device # 0
          => /\ lastOp'.ret = NoRet
             /\ BagCardinality(writes') = BagCardinality(writes) + 1]_vars

\* C33 witness: a write has been invoked and has sent its command after a
\* connect attempt failed on a handler that holds a handle.
C33_Witness ==
  /\ lastOp.op = "onSet" /\ lastOp.ret = NoRet
  /\ device # 0 /\ reconnectTimers > 0

\* The command a speed write waits for at RPC step i.
StepMethod(i) == IF i = 0 THEN "set_mode" ELSE tries[i]

\* C34: a speed write waits at one of the six RPC steps 0..5; the answer to
\* step i, whatever it is, ends the write or moves it to step i + 1, and the
\* answer to step 5 ends it; step i > 0 is sent by no other step than the one
\* that handled step i - 1 or, for step 1, the invocation; with no handle the
\* write ends at once.
C34_AtMostSixCommands ==
  /\ [](\A w \in DOMAIN writes : w.kind = "speed" => w.pc \in 0 .. Len(tries))
  /\ [][\A i \in 0 .. Len(tries) :
          lastOp'.op = "callSettled" /\ lastOp'.cmd = StepMethod(i)
            => /\ AtStep(i, writes') = AtStep(i, writes) - 1
               /\ \A j \in 0 .. Len(tries) : SentStep(j) => j = i + 1
               /\ \/ /\ lastOp'.ret.kind = "speed"
                     /\ BagCardinality(writes') = BagCardinality(writes) - 1
                  \/ /\ i < Len(tries) /\ lastOp'.ret = NoRet
                     /\ AtStep(i + 1, writes') = AtStep(i + 1, writes) + 1
                     /\ BagCardinality(writes') = BagCardinality(writes)]_vars
  /\ [][\A j \in 0 .. Len(tries) :
          SentStep(j) => \/ lastOp'.op = "onSet" /\ j <= 1
                         \/ lastOp'.op = "callSettled" /\ j > 0
                              /\ lastOp'.cmd = StepMethod(j - 1)]_vars
  /\ [][lastOp'.op = "onSet" /\ lastOp'.arg = "speed" /\ device = 0
          => lastOp'.ret.kind = "speed" /\ writes' = writes]_vars

\* C34 witness: the fifth candidate has failed and the write has ended.
C34_Witness ==
  /\ lastOp.op = "callSettled" /\ lastOp.cmd = tries[Len(tries)] /\ lastOp.arg = "transport"
  /\ lastOp.ret.kind = "speed"

\* C35: a mode switch turned on picks set_mode with its own mode; turned off it
\* picks set_mode ['auto'] when the cached mode is its own mode and no command
\* otherwise.
C35_ModeSwitchCommand ==
  lastOp.op = "modeSwitchCommand"
    => LET own == JsString(lastOp.arg.modeValue)
       IN /\ lastOp.arg.value
               => lastOp.ret.method = "set_mode" /\ lastOp.ret.args = own
          /\ ~lastOp.arg.value /\ lastOp.arg.cached = own
               => lastOp.ret.method = "set_mode" /\ lastOp.ret.args = JsString("auto")
          /\ ~lastOp.arg.value /\ lastOp.arg.cached # own
               => lastOp.ret = NoCommand

\* C35 witness: the silent switch has been turned off while the cached mode is
\* 'favorite', and no command has been picked.
C35_Witness ==
  /\ lastOp.op = "modeSwitchCommand" /\ lastOp.arg.modeValue = "silent"
  /\ ~lastOp.arg.value /\ lastOp.arg.cached = JsString("favorite")
  /\ lastOp.ret = NoCommand

\* A cached value that is a finite number (a numeral in a string counted as
\* one).
IsFiniteNumber(raw) ==
  \/ raw.type = "number" /\ raw.num.finite
  \/ raw.type = "string" /\ raw.str # "" /\ StringToNumber(raw.str).finite

\* C36: whatever favorite_level value is cached, the rotation speed published
\* is an integer in 0..100, and it is 0 when the value is no finite number.
C36_SpeedInRangeZeroIfNoNumber ==
  lastOp.op = "rotationSpeed"
    => /\ lastOp.ret.speed \in 0 .. 100
       /\ ~IsFiniteNumber(lastOp.arg.raw) => lastOp.ret.speed = 0
====
